---------------------------- MODULE Spec2Model ----------------------------
(***************************************************************************)
(* Model of scripts/prepare_tweet_contents.py: the identifier extractor,   *)
(* the chunker, the batch fetcher (fetch_all_tweets), the media resolver   *)
(* (save_individual_tweet) and the command entry point (main).             *)
(*                                                                         *)
(* Python values are modelled as follows.  A dict is a function from its   *)
(* keys (strings) to values, so `"k" in d` is "k" \in DOMAIN d and the     *)
(* empty dict is the function with the empty domain.  A list is a          *)
(* sequence.  A JSON value whose Python type matters to the code (the      *)
(* 'data' member of an API response) is a tagged record [type |-> ...].    *)
(* Tweet identifiers are digit strings in the program; here they are       *)
(* natural numbers, standing for digit strings of one length, on which the *)
(* order of sorted() is the numeric order.                                 *)
(***************************************************************************)
EXTENDS Integers, Sequences, FiniteSets, TLC

VARIABLES
    \* chunk_list called on its own
    lst, chunk_size, chunked, chunk_pc,
    \* fetch_all_tweets
    tweet_ids, is_free_plan, chunks, i, all_tweets_data, failed_chunks,
    fetch_pc,
    \* the world fetch_all_tweets acts on: the calls and sleeps it made in
    \* order, the outcome the API gave each batch, the number of batches the
    \* API may yet answer with something else than tweets, the files written
    \* to the output directory
    log, outcomes, budget, files,
    \* main
    args, csv, main_pc, ret,
    \* save_individual_tweet
    tweet_data, media_data, pos, photo_count, video_count, gif_count,
    media_count, media_pc,
    \* what save_individual_tweet did: the filename given to each attachment
    \* of the item, the downloads it attempted, the files in the item's
    \* directory, the number of items already processed
    assigned, attempted, saved, items_done

chunkVars == <<lst, chunk_size, chunked, chunk_pc>>
fetchVars == <<tweet_ids, is_free_plan, chunks, i, all_tweets_data,
               failed_chunks, fetch_pc, log, outcomes, budget>>
mainVars  == <<args, csv, main_pc, ret>>
mediaVars == <<tweet_data, media_data, pos, photo_count, video_count,
               gif_count, media_count, media_pc, assigned, attempted,
               saved, items_done>>
vars == <<chunkVars, fetchVars, files, mainVars, mediaVars>>

-----------------------------------------------------------------------------
(* Program constants *)

\* chunk_list(sorted_tweet_ids, 100)
API_CHUNK_SIZE == 100
\* time.sleep(900)
FREE_PLAN_WAIT == 900
\* time.sleep(60)
PAID_PLAN_WAIT == 60
\* if len(chunks) > 15
PAID_PLAN_THRESHOLD == 15

(* Bounds of the model *)

\* longest list given to chunk_list on its own
MaxLen == 4
\* largest chunk_size given to chunk_list on its own
MaxChunkSize == 3
\* most batches of a run in which every batch may take every outcome
MaxBatches == 3
\* most batches of a long run (beyond the paid-plan threshold)
MaxLongBatches == 17
\* most batches of a long run that do not succeed
MaxLongFaults == 1
\* most attachments (media keys) of an item
MaxKeys == 3
\* most variants of a video descriptor
MaxVariants == 3
\* most items given to save_individual_tweet in a row
MaxItems == 2
\* most rows of the input table
MaxRows == 2

-----------------------------------------------------------------------------
(* Python helpers *)

Min(a, b) == IF a < b THEN a ELSE b

\* len(range(start, stop, step)) for step > 0
RangeLen(start, stop, step) ==
    IF stop <= start THEN 0 ELSE (stop - start + step - 1) \div step

\* s[a:b] for 0 <= a <= b (Python slices clamp to the list)
Slice(s, a, b) == SubSeq(s, a + 1, Min(b, Len(s)))

\* sorted(list(S)) for a set of identifiers
Sorted(S) ==
    IF S = {} THEN <<>>
    ELSE LET top == CHOOSE m \in S : \A y \in S : y <= m
         IN  SelectSeq([k \in 1..top |-> k], LAMBDA x : x \in S)

\* the empty dict {}
EmptyDict == <<>>

\* bool(d) for a dict
Truthy(d) == DOMAIN d # {}

-----------------------------------------------------------------------------
(* chunk_list *)

\* a slice one element short: lst[i : i + chunk_size - 1]
chunk_list_short(l, size) ==
    [k \in 1..RangeLen(0, Len(l), size) |->
        Slice(l, (k - 1) * size, (k - 1) * size + size - 1)]

\* [lst[i : i + chunk_size] for i in range(0, len(lst), chunk_size)]
chunk_list(l, size) ==
    [k \in 1..RangeLen(0, Len(l), size) |->
        Slice(l, (k - 1) * size, (k - 1) * size + size)]

\* the machine is not running: chunk_list on its own
ChunkIdle ==
    /\ lst = <<>>
    /\ chunk_size = 1
    /\ chunked = <<>>
    /\ chunk_pc = "idle"

\* the lists chunk_list is tried on: every short list over two identifiers,
\* and the 250 identifiers of the documented example
ChunkInputs ==
    {<<l, size>> : l \in UNION {[1..n -> {1, 2}] : n \in 0..MaxLen},
                   size \in 1..MaxChunkSize}
    \cup {<<[k \in 1..250 |-> k], API_CHUNK_SIZE>>}

ChunkInit ==
    /\ \E in \in ChunkInputs : lst = in[1] /\ chunk_size = in[2]
    /\ chunked = <<>>
    /\ chunk_pc = "call"

\* one call of chunk_list(lst, chunk_size)
ChunkList ==
    /\ chunk_pc = "call"
    /\ chunked' = chunk_list(lst, chunk_size)
    /\ chunk_pc' = "returned"
    /\ UNCHANGED <<lst, chunk_size, fetchVars, files, mainVars, mediaVars>>

-----------------------------------------------------------------------------
(* get_posts_from_x_api and fetch_all_tweets *)

\* What the X API does with one request:
\*   tweets      2xx, 'data' is the list of the requested tweets
\*   empty_data  2xx, 'data' is an empty list
\*   no_data     2xx, no 'data' member (only 'errors')
\*   null_data   2xx, 'data' is null
\*   http_error  requests raises a RequestException (transport, non-2xx)
\*   exception   another exception is raised (a body that is not JSON)
ApiOutcomes ==
    {"tweets", "empty_data", "no_data", "null_data", "http_error", "exception"}

JsonList(items) == [type |-> "list", items |-> items]
JsonNull == [type |-> "null"]

\* response.json() of a 2xx response
ResponseJson(ids, o) ==
    CASE o = "tweets"     -> [data |-> JsonList(ids),
                              includes |-> [media |-> JsonList(<<>>)]]
      [] o = "empty_data" -> [data |-> JsonList(<<>>)]
      [] o = "no_data"    -> [errors |-> JsonList(ids)]
      [] o = "null_data"  -> [data |-> JsonNull]

\* try: requests.get; raise_for_status; return response.json()
\* except RequestException: return {}
get_posts_from_x_api(ids, o) ==
    CASE o = "exception"  -> [raised |-> TRUE, value |-> EmptyDict]
      [] o = "http_error" -> [raised |-> FALSE, value |-> EmptyDict]
      [] OTHER            -> [raised |-> FALSE, value |-> ResponseJson(ids, o)]

\* only the truthiness of the response is tested
HasData_truthy(d) == Truthy(d)

\* if tweets_data and "data" in tweets_data
HasData(d) == Truthy(d) /\ "data" \in DOMAIN d

\* len(tweets_data.get('data', [])) raises TypeError unless the value is sized
LenRaises(d) == "data" \in DOMAIN d /\ d.data.type # "list"

\* the batch number is taken from enumerate(chunks), counting from 0
FailedEntry_zero_based(n, chunk) == <<n - 1, chunk>>

\* failed_chunks.append((i, chunk))
FailedEntry(n, chunk) == <<n, chunk>>

\* the sleep that ends an iteration that raised nothing (0: no sleep)
WaitAfter(n, total, free) ==
    IF n < total
    THEN IF free THEN FREE_PLAN_WAIT
         ELSE IF total > PAID_PLAN_THRESHOLD THEN PAID_PLAN_WAIT ELSE 0
    ELSE 0

CallEvent(ids) == [ev |-> "call", ids |-> ids]
SleepEvent(secs) == [ev |-> "sleep", secs |-> secs]

FetchIdle ==
    /\ tweet_ids = {}
    /\ is_free_plan = TRUE
    /\ chunks = <<>>
    /\ i = 0
    /\ all_tweets_data = <<>>
    /\ failed_chunks = <<>>
    /\ fetch_pc = "idle"
    /\ log = <<>>
    /\ outcomes = <<>>
    /\ budget = 0

\* the locals of fetch_all_tweets as the loop is entered: lines 431-443
FetchEntry(ids, free, faults) ==
    [tweet_ids |-> ids,
     is_free_plan |-> free,
     chunks |-> chunk_list(Sorted(ids), API_CHUNK_SIZE),
     all_tweets_data |-> <<>>,
     failed_chunks |-> <<>>,
     budget |-> faults]

FetchEntered(e) ==
    /\ tweet_ids = e.tweet_ids
    /\ is_free_plan = e.is_free_plan
    /\ chunks = e.chunks
    /\ i = 0
    /\ all_tweets_data = e.all_tweets_data
    /\ failed_chunks = e.failed_chunks
    /\ fetch_pc = "loop"
    /\ log = <<>>
    /\ outcomes = <<>>
    /\ budget = e.budget

\* the identifier sets of runs of 0..b batches, full and half-full last batch
IdSets(b) ==
    {{}} \cup {1..(API_CHUNK_SIZE * n - h) :
                 n \in 1..b, h \in {0, API_CHUNK_SIZE \div 2}}

\* every batch may take every outcome
FetchInit ==
    \E ids \in IdSets(MaxBatches), free \in BOOLEAN :
        FetchEntered(FetchEntry(ids, free, MaxBatches))

\* long runs, around the paid-plan threshold; few batches fail
FetchLongInit ==
    \E n \in (PAID_PLAN_THRESHOLD - 1)..MaxLongBatches, free \in BOOLEAN :
        FetchEntered(FetchEntry(1..(API_CHUNK_SIZE * n), free, MaxLongFaults))

\* one iteration of `for i, chunk in enumerate(chunks, 1)`: lines 445-472
FetchBatch ==
    /\ fetch_pc = "loop"
    /\ i < Len(chunks)
    /\ \E o \in ApiOutcomes :
        /\ o = "tweets" \/ budget > 0
        /\ LET n == i + 1
               chunk == chunks[n]
               r == get_posts_from_x_api(chunk, o)
               kept == ~r.raised /\ HasData(r.value)
               \* the print of the success line raises
               printRaises == kept /\ LenRaises(r.value)
               raised == r.raised \/ printRaises
               wait == WaitAfter(n, Len(chunks), is_free_plan)
               called == Append(log, CallEvent(chunk))
           IN  /\ all_tweets_data' =
                     IF kept THEN Append(all_tweets_data, r.value)
                     ELSE all_tweets_data
               /\ failed_chunks' =
                     IF raised \/ ~kept
                     THEN Append(failed_chunks, FailedEntry(n, chunk))
                     ELSE failed_chunks
               /\ log' = IF ~raised /\ wait > 0
                         THEN Append(called, SleepEvent(wait))
                         ELSE called
               /\ i' = n
               /\ outcomes' = Append(outcomes, o)
               /\ budget' = IF o = "tweets" THEN budget ELSE budget - 1
    /\ UNCHANGED <<tweet_ids, is_free_plan, chunks, fetch_pc>>
    /\ UNCHANGED <<chunkVars, files, mainVars, mediaVars>>

\* a response whose 'data' cannot be iterated or measured: lines 383-386, 477
Unsized(results) ==
    \E j \in 1..Len(results) : LenRaises(results[j])

\* after the loop: lines 475-484.  save_tweets_data writes tweets_data.json
\* (or fails to: disk = "error") and saves the tweets one by one (which may
\* fail: disk = "error_individual"); the per-tweet loop and the final count
\* raise on a response whose 'data' is not a list
FetchFinish ==
    /\ fetch_pc = "loop"
    /\ i = Len(chunks)
    /\ \E disk \in {"ok", "error", "error_individual"} :
        IF all_tweets_data = <<>>
        THEN fetch_pc' = "done" /\ files' = files
        ELSE IF disk = "error"
        THEN fetch_pc' = "raised" /\ files' = files
        ELSE /\ files' = files \cup {"tweets_data.json"}
             /\ fetch_pc' = IF disk = "error_individual"
                               \/ Unsized(all_tweets_data)
                            THEN "raised" ELSE "done"
    /\ UNCHANGED <<tweet_ids, is_free_plan, chunks, i, all_tweets_data,
                   failed_chunks, log, outcomes, budget>>
    /\ UNCHANGED <<chunkVars, mainVars, mediaVars>>

-----------------------------------------------------------------------------
(* get_media_extension and save_individual_tweet *)

\* d.get(k, default)
Get(d, k, default) == IF k \in DOMAIN d THEN d[k] ELSE default

\* A URL is the pair of what names the resource and the suffix the code
\* looks for in it; the empty string is NoUrl.
Url(path, ext) == [path |-> path, ext |-> ext]
NoUrl == Url("", "")

\* get_media_extension(media_type, url): lines 200-214
get_media_extension(media_type, url) ==
    CASE media_type = "photo" ->
             IF url.ext \in {".jpg", ".jpeg"} THEN ".jpg"
             ELSE IF url.ext = ".png" THEN ".png"
             ELSE IF url.ext = ".webp" THEN ".webp"
             ELSE ".jpg"
      [] media_type = "video" -> ".mp4"
      [] media_type = "animated_gif" -> ".gif"
      [] OTHER -> ".bin"

\* the first media of media_data whose media_key is key; NoMedia for None
NoMedia == [none |-> TRUE]
FindMedia(media, key) ==
    LET hits == {j \in 1..Len(media) : Get(media[j], "media_key", "") = key}
    IN  IF hits = {} THEN NoMedia
        ELSE media[CHOOSE j \in hits : \A h \in hits : j <= h]

\* the loop over the variants of a video, lines 328-334, from variant j on,
\* with the locals (max_bitrate, media_url) as they stand
RECURSIVE SelectVariant(_, _, _, _)
SelectVariant(variants, j, max_bitrate, media_url) ==
    IF j > Len(variants) THEN media_url
    ELSE LET bitrate == Get(variants[j], "bit_rate", 0)
         IN  IF bitrate > max_bitrate
             THEN SelectVariant(variants, j + 1, bitrate,
                                Get(variants[j], "url", NoUrl))
             ELSE SelectVariant(variants, j + 1, max_bitrate, media_url)

\* the name is numbered by the files downloaded so far
Filename_by_downloads(prefix, count, downloaded) ==
    [prefix |-> prefix, n |-> downloaded + 1]

\* f"photo_{photo_count}", f"video_{video_count}", f"gif_{gif_count}"
Filename(prefix, count, downloaded) == [prefix |-> prefix, n |-> count]

Variant(rate, path) == [bit_rate |-> rate, url |-> Url(path, ".mp4")]

\* the descriptors a side-table may hold for key
Descriptors(key) ==
    {[media_key |-> key, type |-> "photo", url |-> Url("p", ".png")],
     [media_key |-> key, type |-> "photo"],
     [media_key |-> key, type |-> "video",
      variants |-> <<Variant(500, "v500"), Variant(2000, "v2000")>>],
     [media_key |-> key, type |-> "video", variants |-> <<Variant(0, "v0")>>],
     [media_key |-> key, type |-> "animated_gif",
      variants |-> <<Variant(0, "g")>>],
     [media_key |-> key, type |-> "animated_gif", variants |-> <<>>],
     [media_key |-> key, type |-> "audio"]}

\* the variants a video descriptor may list
VariantShapes ==
    {Variant(500, "v500"), Variant(2000, "v2000"), Variant(1200, "v1200"),
     Variant(0, "v0"), [url |-> Url("vnone", ".m3u8")],
     [bit_rate |-> 2000, url |-> NoUrl]}

SeqsUpTo(S, n) == UNION {[1..m -> S] : m \in 0..n}

\* the items given to save_individual_tweet
Tweets(id) ==
    {[id |-> id, attachments |-> [media_keys |-> ks]] :
        ks \in SeqsUpTo({"k1", "k2", "kx"}, MaxKeys)}
    \cup {[id |-> id], [id |-> id, attachments |-> [poll_ids |-> <<>>]],
          [text |-> "t"]}

\* no call of save_individual_tweet made yet; media is the side-table
MediaEntered(media) ==
    /\ tweet_data = <<>>
    /\ media_data = media
    /\ pos = 0
    /\ photo_count = 0
    /\ video_count = 0
    /\ gif_count = 0
    /\ media_count = 0
    /\ media_pc = "idle"
    /\ assigned = <<>>
    /\ attempted = <<>>
    /\ saved = <<>>
    /\ items_done = 0

MediaIdle == MediaEntered(<<>>)

\* items with photos, videos, animated images and unknown media attached
MediaInit ==
    \E media \in {<<>>} \cup {<<d1, d2>> : d1 \in Descriptors("k1"),
                                           d2 \in Descriptors("k2")} :
        MediaEntered(media)

\* items with one video attached, over every short list of variants
VideoInit ==
    \E vs \in SeqsUpTo(VariantShapes, MaxVariants) :
        MediaEntered(<<[media_key |-> "k1", type |-> "video",
                        variants |-> vs]>>)

\* save_individual_tweet is called with the next item: lines 280-303
MediaCall ==
    /\ media_pc = "idle"
    /\ items_done < MaxItems
    /\ \E tweet \in Tweets(items_done + 1) :
        /\ tweet_data' = tweet
        /\ assigned' = <<>>
        /\ attempted' = <<>>
        /\ media_count' = 0
        /\ pos' = 0
        /\ photo_count' = 0
        /\ video_count' = 0
        /\ gif_count' = 0
        /\ IF "id" \notin DOMAIN tweet
           THEN \* return 0
                /\ saved' = <<>>
                /\ media_pc' = "idle"
                /\ items_done' = items_done + 1
           ELSE /\ saved' = <<[name |-> "tweet", ext |-> ".json"]>>
                /\ IF media_data # <<>> /\ "attachments" \in DOMAIN tweet
                   THEN media_pc' = "loop" /\ items_done' = items_done
                   ELSE media_pc' = "idle" /\ items_done' = items_done + 1
    /\ UNCHANGED media_data
    /\ UNCHANGED <<chunkVars, fetchVars, files, mainVars>>

\* one iteration of `for media_key in media_keys`: lines 305-350
MediaStep ==
    LET media_keys == Get(tweet_data.attachments, "media_keys", <<>>)
    IN
    /\ media_pc = "loop"
    /\ pos < Len(media_keys)
    /\ \E download \in BOOLEAN :
        LET media_info == FindMedia(media_data, media_keys[pos + 1])
            media_type == Get(media_info, "type", "")
            named == media_info # NoMedia
                     /\ media_type \in {"photo", "video", "animated_gif"}
            photos == IF named /\ media_type = "photo"
                      THEN photo_count + 1 ELSE photo_count
            videos == IF named /\ media_type = "video"
                      THEN video_count + 1 ELSE video_count
            gifs   == IF named /\ media_type = "animated_gif"
                      THEN gif_count + 1 ELSE gif_count
            filename ==
                CASE media_type = "photo" ->
                         Filename("photo", photos, media_count)
                  [] media_type = "video" ->
                         Filename("video", videos, media_count)
                  [] OTHER -> Filename("gif", gifs, media_count)
            variants == Get(media_info, "variants", <<>>)
            media_url ==
                CASE media_type = "photo" -> Get(media_info, "url", NoUrl)
                  [] media_type = "video" ->
                         SelectVariant(variants, 1, 0, NoUrl)
                  [] OTHER -> IF variants # <<>>
                              THEN Get(variants[1], "url", NoUrl)
                              ELSE NoUrl
            file == [name |-> filename,
                     ext |-> get_media_extension(media_type, media_url)]
            tried == named /\ media_url # NoUrl
        IN  /\ pos' = pos + 1
            /\ photo_count' = photos
            /\ video_count' = videos
            /\ gif_count' = gifs
            /\ assigned' = IF named
                           THEN Append(assigned,
                                       [key |-> media_keys[pos + 1],
                                        name |-> filename])
                           ELSE assigned
            /\ attempted' = IF tried
                            THEN Append(attempted,
                                        [key |-> media_keys[pos + 1],
                                         url |-> media_url, file |-> file])
                            ELSE attempted
            /\ saved' = IF tried /\ download /\ \A j \in 1..Len(saved) :
                                                   saved[j] # file
                        THEN Append(saved, file) ELSE saved
            /\ media_count' = IF tried /\ download
                              THEN media_count + 1 ELSE media_count
            \* without an attempt the outcome of the download is no input
            /\ tried \/ download
    /\ UNCHANGED <<tweet_data, media_data, media_pc, items_done>>
    /\ UNCHANGED <<chunkVars, fetchVars, files, mainVars>>

\* return media_count: line 352
MediaReturn ==
    /\ media_pc = "loop"
    /\ pos = Len(Get(tweet_data.attachments, "media_keys", <<>>))
    /\ media_pc' = "idle"
    /\ items_done' = items_done + 1
    /\ UNCHANGED <<tweet_data, media_data, pos, photo_count, video_count,
                   gif_count, media_count, assigned, attempted, saved>>
    /\ UNCHANGED <<chunkVars, fetchVars, files, mainVars>>

-----------------------------------------------------------------------------
(* extract_tweet_id_from_url, extract_tweet_ids_from_csv, save_tweet_ids, main *)

\* A URL string scheme://host/user/marker/id..., id = 0 when no digit
\* follows the marker.
StatusUrl(scheme, host, user, marker, id) ==
    [scheme |-> scheme, host |-> host, user |-> user, marker |-> marker,
     id |-> id]

\* \w+ : a non-empty run of word characters
IsWord(user) == user \in {"alice", "i", "bob_2"}

\* r"https?://(?:twitter\.com|x\.com)/\w+/status/(\d+)"
Pattern1(u) ==
    /\ u.scheme \in {"http", "https"}
    /\ u.host \in {"twitter.com", "x.com"}
    /\ IsWord(u.user)
    /\ u.marker = "status"
    /\ u.id > 0

\* r"https?://(?:twitter\.com|x\.com)/i/status/(\d+)"
Pattern2(u) ==
    /\ u.scheme \in {"http", "https"}
    /\ u.host \in {"twitter.com", "x.com"}
    /\ u.user = "i"
    /\ u.marker = "status"
    /\ u.id > 0

\* only the x.com host is recognised
extract_tweet_id_x_only(u) ==
    IF Pattern1(u) /\ u.host = "x.com" THEN u.id ELSE 0

\* the first pattern that matches gives match.group(1); 0 stands for None
extract_tweet_id_from_url(u) ==
    IF Pattern1(u) THEN u.id
    ELSE IF Pattern2(u) THEN u.id
    ELSE 0

\* A cell of a row read by csv.DictReader: a string, or None where the row
\* is shorter than the header.
CellNone == [kind |-> "none"]
CellEmpty == [kind |-> "empty"]
CellUrl(u) == [kind |-> "url", url |-> u]

\* row.get(target_column, "")
RowGet(row, column) == IF column \in DOMAIN row THEN row[column] ELSE CellEmpty

\* lines 63-75, the file having been opened
extract_tweet_ids_from_csv(table, target_column) ==
    LET rows == table.rows
        url(j) == RowGet(rows[j], target_column)
    IN  {extract_tweet_id_from_url(url(j).url) :
            j \in {r \in 1..Len(rows) :
                     /\ url(r).kind = "url"
                     /\ extract_tweet_id_from_url(url(r).url) # 0}}

\* only --bearer-token is looked at
BearerToken_args_only(a) == a.bearer_token

\* args.bearer_token or os.getenv("X_BEARER_TOKEN"); "" stands for a missing
\* option and an unset variable
BearerToken(a) ==
    IF a.bearer_token # "" THEN a.bearer_token ELSE a.env_token

\* what the 検証対象URL column may hold
UrlCells ==
    {CellNone, CellEmpty,
     CellUrl(StatusUrl("https", "x.com", "alice", "status", 1)),
     CellUrl(StatusUrl("https", "twitter.com", "bob_2", "status", 1)),
     CellUrl(StatusUrl("http", "twitter.com", "i", "status", 2)),
     CellUrl(StatusUrl("https", "example.com", "alice", "status", 4))}

\* another column, which holds a status URL too
LabelCell == CellUrl(StatusUrl("https", "x.com", "alice", "status", 3))

\* input tables with and without the column named by --column
Tables ==
    {[header |-> {"url", "label"}, rows |-> rows] :
        rows \in SeqsUpTo({[c \in {"url", "label"} |->
                               IF c = "url" THEN cell ELSE LabelCell] :
                             cell \in UrlCells}, MaxRows)}
    \cup {[header |-> {"label"}, rows |-> rows] :
            rows \in SeqsUpTo({[c \in {"label"} |-> LabelCell]}, MaxRows)}

\* the command line, with what the environment holds: whether the input
\* file exists and the variable X_BEARER_TOKEN
Arguments ==
    [process_json : BOOLEAN, input_exists : BOOLEAN, column : {"url"},
     fetch_tweets : BOOLEAN, bearer_token : {"", "t1"},
     env_token : {"", "t2"}, paid_plan : BOOLEAN]

NotReturned == -1

MainIdle ==
    /\ args = <<>>
    /\ csv = <<>>
    /\ main_pc = "idle"
    /\ ret = NotReturned

MainInit ==
    /\ args \in Arguments
    /\ csv \in Tables
    /\ main_pc = "start"
    /\ ret = NotReturned

\* the positions of main's return statements
Returned ==
    main_pc \in {"return_543", "return_548", "return_557", "return_579",
                 "return_595", "return_599"}

\* if args.process_json: process_existing_tweets_data(...); return 0
\* (lines 534-543; what it writes under individual_tweets is not modelled)
MainProcessJson ==
    /\ main_pc = "start"
    /\ args.process_json
    /\ main_pc' = "return_543"
    /\ ret' = 0
    /\ UNCHANGED <<args, csv>>
    /\ UNCHANGED <<chunkVars, fetchVars, files, mediaVars>>

\* if not Path(args.input_csv).exists(): return 1  (lines 546-548)
MainCheckInput ==
    /\ main_pc = "start"
    /\ ~args.process_json
    /\ IF args.input_exists
       THEN main_pc' = "extract" /\ ret' = ret
       ELSE main_pc' = "return_548" /\ ret' = 1
    /\ UNCHANGED <<args, csv>>
    /\ UNCHANGED <<chunkVars, fetchVars, files, mediaVars>>

\* tweet_ids = extract_tweet_ids_from_csv(...); if not tweet_ids: return 0
\* (lines 553-557; open = "error": the file cannot be opened or decoded and
\* the exception is caught at line 597)
MainExtract ==
    /\ main_pc = "extract"
    /\ \E open \in {"ok", "error"} :
        IF open = "error"
        THEN main_pc' = "return_599" /\ ret' = 1 /\ tweet_ids' = tweet_ids
        ELSE LET ids == extract_tweet_ids_from_csv(csv, args.column)
             IN  /\ tweet_ids' = ids
                 /\ IF ids = {}
                    THEN main_pc' = "return_557" /\ ret' = 0
                    ELSE main_pc' = "save_ids" /\ ret' = ret
    /\ UNCHANGED <<args, csv, files>>
    /\ UNCHANGED <<is_free_plan, chunks, i, all_tweets_data, failed_chunks,
                   fetch_pc, log, outcomes, budget>>
    /\ UNCHANGED <<chunkVars, mediaVars>>

\* save_tweet_ids(tweet_ids, args.output_dir)  (line 560, lines 86-98)
MainSaveIds ==
    /\ main_pc = "save_ids"
    /\ \E disk \in {"ok", "error"} :
        IF disk = "error"
        THEN main_pc' = "return_599" /\ ret' = 1 /\ files' = files
        ELSE /\ files' = files \cup {"tweet_ids.csv"}
             /\ main_pc' = "credential"
             /\ ret' = ret
    /\ UNCHANGED <<args, csv>>
    /\ UNCHANGED <<chunkVars, fetchVars, mediaVars>>

\* if args.fetch_tweets: ... fetch_all_tweets(...)  (lines 570-595)
MainCredential ==
    /\ main_pc = "credential"
    /\ IF ~args.fetch_tweets
       THEN main_pc' = "return_595" /\ ret' = 0 /\ UNCHANGED fetchVars
       ELSE IF BearerToken(args) = ""
       THEN main_pc' = "return_579" /\ ret' = 1 /\ UNCHANGED fetchVars
       ELSE LET e == FetchEntry(tweet_ids, ~args.paid_plan, MaxBatches)
            IN  /\ main_pc' = "fetching"
                /\ ret' = ret
                /\ tweet_ids' = e.tweet_ids
                /\ is_free_plan' = e.is_free_plan
                /\ chunks' = e.chunks
                /\ i' = 0
                /\ all_tweets_data' = e.all_tweets_data
                /\ failed_chunks' = e.failed_chunks
                /\ fetch_pc' = "loop"
                /\ log' = <<>>
                /\ outcomes' = <<>>
                /\ budget' = e.budget
    /\ UNCHANGED <<args, csv, files>>
    /\ UNCHANGED <<chunkVars, mediaVars>>

\* fetch_all_tweets has returned (return 0, line 595) or an exception left
\* it (return 1, line 599)
MainFetched ==
    /\ main_pc = "fetching"
    /\ fetch_pc \in {"done", "raised"}
    /\ IF fetch_pc = "done"
       THEN main_pc' = "return_595" /\ ret' = 0
       ELSE main_pc' = "return_599" /\ ret' = 1
    /\ UNCHANGED <<args, csv, files>>
    /\ UNCHANGED <<chunkVars, fetchVars, mediaVars>>

-----------------------------------------------------------------------------
(* Specifications *)

\* chunk_list on its own
InitChunk == ChunkInit /\ FetchIdle /\ files = {} /\ MainIdle /\ MediaIdle
NextChunk == ChunkList
SpecChunk == InitChunk /\ [][NextChunk]_vars

\* fetch_all_tweets, every batch taking every outcome
InitFetch == ChunkIdle /\ FetchInit /\ files = {} /\ MainIdle /\ MediaIdle
NextFetch == FetchBatch \/ FetchFinish
SpecFetch == InitFetch /\ [][NextFetch]_vars

\* fetch_all_tweets on long runs
InitFetchLong ==
    ChunkIdle /\ FetchLongInit /\ files = {} /\ MainIdle /\ MediaIdle
SpecFetchLong == InitFetchLong /\ [][NextFetch]_vars

\* save_individual_tweet on items of every kind
InitMedia == ChunkIdle /\ FetchIdle /\ files = {} /\ MainIdle /\ MediaInit
NextMedia == MediaCall \/ MediaStep \/ MediaReturn
SpecMedia == InitMedia /\ [][NextMedia]_vars

\* save_individual_tweet on video descriptors of every kind
InitVideo == ChunkIdle /\ FetchIdle /\ files = {} /\ MainIdle /\ VideoInit
SpecVideo == InitVideo /\ [][NextMedia]_vars

\* main, from the command line to the exit status
InitMain == ChunkIdle /\ FetchIdle /\ files = {} /\ MainInit /\ MediaIdle
NextMain ==
    \/ MainProcessJson
    \/ MainCheckInput
    \/ MainExtract
    \/ MainSaveIds
    \/ MainCredential
    \/ MainFetched
    \/ FetchBatch
    \/ FetchFinish
SpecMain == InitMain /\ [][NextMain]_vars

-----------------------------------------------------------------------------
(* Properties of chunk_list *)

RECURSIVE Concat(_)
Concat(ss) == IF ss = <<>> THEN <<>> ELSE Head(ss) \o Concat(Tail(ss))

Lengths(ss) == [k \in 1..Len(ss) |-> Len(ss[k])]

\* C5: chunk_list(lst, chunk_size) with chunk_size > 0 partitions lst: the
\* chunks concatenated in order are lst, every chunk holds between 1 and
\* chunk_size elements, only the last may hold fewer than chunk_size, no
\* chunk is returned exactly when lst is empty, and 250 identifiers with
\* size 100 give chunks of 100, 100 and 50.
C5_ChunksPartitionInput ==
    chunk_pc = "returned" =>
        /\ Concat(chunked) = lst
        /\ \A k \in 1..Len(chunked) :
              /\ 1 <= Len(chunked[k])
              /\ Len(chunked[k]) <= chunk_size
              /\ k < Len(chunked) => Len(chunked[k]) = chunk_size
        /\ chunked = <<>> <=> lst = <<>>
        /\ (Len(lst) = 250 /\ chunk_size = 100)
              => Lengths(chunked) = <<100, 100, 50>>

\* the documented example has been chunked, its last chunk the short one
C5_Witness ==
    /\ chunk_pc = "returned"
    /\ Len(lst) = 250
    /\ Len(chunked) = 3
    /\ Len(chunked[3]) < chunk_size

-----------------------------------------------------------------------------
(* Properties of fetch_all_tweets *)

\* the identifier lists of the API calls made, in order
Calls ==
    LET c == SelectSeq(log, LAMBDA e : e.ev = "call")
    IN  [k \in 1..Len(c) |-> c[k].ids]

\* the batches processed so far whose outcome is in kinds, in order
BatchesWith(kinds) ==
    SelectSeq([n \in 1..i |-> n], LAMBDA n : outcomes[n] \in kinds)

ResponsesOf(batches) ==
    [k \in 1..Len(batches) |->
        ResponseJson(chunks[batches[k]], outcomes[batches[k]])]

FailuresOf(batches) ==
    [k \in 1..Len(batches) |-> <<batches[k], chunks[batches[k]]>>]

AfterLoop == fetch_pc \in {"done", "raised"}

\* C1: whatever the batches' outcomes among success, HTTP/transport failure
\* and exception, every batch is submitted exactly once and in chunk order,
\* none is skipped because an earlier one failed, the results are exactly
\* the responses of the successful batches in order, and the failure list is
\* exactly the (index, identifiers) of the failed batches in order.
C1_EveryBatchSubmittedAndSorted ==
    /\ AfterLoop => i = Len(chunks)
    /\ (\A n \in 1..i : outcomes[n] \in {"tweets", "http_error", "exception"})
          => /\ Calls = SubSeq(chunks, 1, i)
             /\ all_tweets_data = ResponsesOf(BatchesWith({"tweets"}))
             /\ failed_chunks =
                    FailuresOf(BatchesWith({"http_error", "exception"}))

\* three batches, the second failed: the results are batches 1 and 3
C1_Witness ==
    /\ fetch_pc = "done"
    /\ outcomes = <<"tweets", "http_error", "tweets">>
    /\ Len(all_tweets_data) = 2
    /\ failed_chunks = <<<<2, chunks[2]>>>>

PausedBetweenCalls(secs) ==
    \A k \in 1..Len(log) :
        /\ (log[k].ev = "call" /\ k > 1) => log[k - 1] = SleepEvent(secs)
        /\ log[k].ev = "sleep" =>
              /\ k > 1
              /\ log[k - 1].ev = "call"
              /\ log[k - 1].ids # chunks[Len(chunks)]

NoPause == \A k \in 1..Len(log) : log[k].ev # "sleep"

\* C3: on the free plan, whatever the batches' outcomes, two consecutive API
\* calls are separated by exactly one pause of 900, no pause follows the
\* last batch, and the batches are called in order, none skipped.
C3_FreePlanPausesBetweenCalls ==
    (is_free_plan /\ fetch_pc # "idle") =>
        /\ AfterLoop => i = Len(chunks)
        /\ Calls = SubSeq(chunks, 1, i)
        /\ PausedBetweenCalls(900)

\* C4: on a paid plan, a pause of 60 separates two consecutive calls if and
\* only if there are more than 15 batches; with 15 or fewer there is no
\* pause at all, and there is never a pause of 900.
C4_PaidPlanPausesOverThreshold ==
    (~is_free_plan /\ fetch_pc # "idle") =>
        /\ Calls = SubSeq(chunks, 1, i)
        /\ \A k \in 1..Len(log) : log[k] # SleepEvent(900)
        /\ IF Len(chunks) > 15 THEN PausedBetweenCalls(60) ELSE NoPause

\* C10: every batch processed ends Succeeded or Failed and never both: its
\* response is in the results or its (index, identifiers) in the failure
\* list, so the two lists together hold as many entries as batches
\* processed, whatever the API returns.
C10_EachBatchSucceededOrFailed ==
    /\ AfterLoop => i = Len(chunks)
    /\ Len(all_tweets_data) + Len(failed_chunks) = i

-----------------------------------------------------------------------------
(* Properties of save_individual_tweet *)

\* the attachments of the item that the loop has gone through
KeysDone ==
    IF media_pc = "loop" \/ assigned # <<>>
    THEN SubSeq(Get(tweet_data.attachments, "media_keys", <<>>), 1, pos)
    ELSE <<>>

VariantRate(v) == Get(v, "bit_rate", 0)
VariantUrl(v) == Get(v, "url", NoUrl)

\* C6: for a video attachment a download is attempted whenever at least one
\* variant carries a non-empty URL, also when every bitrate is 0 or missing,
\* and the URL downloaded is that of a variant of the highest bitrate.
C6_VideoDownloadedWhenAnyUrl ==
    \A p \in 1..Len(KeysDone) :
        LET info == FindMedia(media_data, KeysDone[p])
            vs == Get(info, "variants", <<>>)
        IN  (info # NoMedia /\ Get(info, "type", "") = "video"
             /\ \E j \in 1..Len(vs) : VariantUrl(vs[j]) # NoUrl)
            => \E a \in 1..Len(attempted) :
                  /\ attempted[a].key = KeysDone[p]
                  /\ \E j \in 1..Len(vs) :
                        /\ attempted[a].url = VariantUrl(vs[j])
                        /\ \A h \in 1..Len(vs) :
                              VariantRate(vs[h]) <= VariantRate(vs[j])

\* the number of entries of assigned up to j that carry the prefix of entry j
Rank(j) ==
    Cardinality({k \in 1..j : assigned[k].name.prefix = assigned[j].name.prefix})

\* C9: within one call the filenames come from per-type counters that start
\* at 1 in every call, so the n-th photo, video or animated image of the item
\* is photo_n, video_n or gif_n, and no two attachments of the item are given
\* the same filename, whatever the media keys (repeated, unknown, of unknown
\* type or without URL).
C9_FilenamesDistinctPerItem ==
    /\ \A a, b \in 1..Len(assigned) :
          a # b => assigned[a].name # assigned[b].name
    /\ \A j \in 1..Len(assigned) : assigned[j].name.n = Rank(j)
    /\ \A a, b \in 1..Len(attempted) :
          a # b => attempted[a].file # attempted[b].file
    /\ \A a \in 1..Len(attempted) :
          \E j \in 1..Len(assigned) : assigned[j].name = attempted[a].file.name

\* the second item of a run has the same media key attached twice and an
\* attachment without URL, and a download of it failed
C9_Witness ==
    /\ items_done = 1
    /\ media_pc = "loop"
    /\ Len(assigned) = 3
    /\ assigned[1].key = assigned[2].key
    /\ assigned[1].name.prefix = assigned[3].name.prefix
    /\ Len(attempted) = 2
    /\ media_count = 1

-----------------------------------------------------------------------------
(* Properties of main and extract_tweet_ids_from_csv *)

NoCredential == args.bearer_token = "" /\ args.env_token = ""

\* the setup errors of the specification: no input file, or fetching asked
\* for without a credential
SetupError ==
    ~args.input_exists \/ (args.fetch_tweets /\ NoCredential)

\* C7 (as amended): main returns 1 when the input file is missing, and then
\* nothing was written and no API call made; when fetching is requested,
\* identifiers were found and no credential is available, and then no API
\* call was made but tweet_ids.csv had already been written; and when an
\* exception is caught at line 597.  Every other run that completes returns
\* 0: --process-json runs, runs that find no identifier (with or without a
\* credential), and runs with reported batch failures.
C7_SetupErrorsAndExitStatus ==
    Returned =>
        /\ ret \in {0, 1}
        /\ (~args.process_json /\ ~args.input_exists) =>
              ret = 1 /\ files = {} /\ log = <<>>
        /\ main_pc = "return_579" =>
              /\ args.fetch_tweets /\ NoCredential /\ tweet_ids # {}
              /\ ret = 1 /\ log = <<>> /\ files = {"tweet_ids.csv"}
        /\ (~args.process_json /\ args.input_exists /\ args.fetch_tweets
            /\ NoCredential /\ main_pc # "return_599")
              => IF tweet_ids = {} THEN ret = 0 /\ files = {}
                 ELSE main_pc = "return_579"
        /\ ret = 1 <=>
              \/ ~args.process_json /\ ~args.input_exists
              \/ main_pc = "return_579"
              \/ main_pc = "return_599"
        /\ (main_pc = "return_595" /\ failed_chunks # <<>>) => ret = 0

\* fetching was asked for without a credential: main has returned 1 with
\* tweet_ids.csv written
C7_Witness ==
    /\ main_pc = "return_579"
    /\ ret = 1
    /\ "tweet_ids.csv" \in files
    /\ NoCredential

\* C7 (as claimed), for the runs in which nothing raises and, the input
\* file being there, identifiers are found: on a setup error main returns 1
\* with no output file written and no API call made, and every other run
\* that completes returns 0.
C7_Original ==
    (/\ Returned
     /\ ~args.process_json
     /\ main_pc # "return_599"
     /\ ~args.input_exists \/ tweet_ids # {}) =>
        IF SetupError THEN ret = 1 /\ files = {} /\ log = <<>>
        ELSE ret = 0

\* the identifiers of the rows whose cell in the column is a status URL of
\* twitter.com or x.com
IdsInColumn ==
    IF args.column \notin csv.header THEN {}
    ELSE {c.url.id :
            c \in {cell \in {csv.rows[j][args.column] : j \in 1..Len(csv.rows)} :
                     /\ cell.kind = "url"
                     /\ cell.url.host \in {"twitter.com", "x.com"}}}

Extracted ==
    main_pc \in {"save_ids", "credential", "fetching", "return_557",
                 "return_579", "return_595"}

\* C8 (as amended): extract_tweet_ids_from_csv never fails on account of the
\* column.  When the column is absent from the header every row is skipped
\* and the empty set is returned (main then reports that no identifier was
\* found and returns 0); when it is present the rows with an empty cell or a
\* URL that does not match are skipped and the identifiers of the other rows
\* are returned.
C8_AbsentColumnGivesEmptySet ==
    Extracted =>
        /\ tweet_ids = IdsInColumn
        /\ args.column \notin csv.header =>
              tweet_ids = {} /\ main_pc = "return_557" /\ ret = 0

\* a table without the column, with rows, has been read: main returned 0
C8_Witness ==
    /\ main_pc = "return_557"
    /\ args.column \notin csv.header
    /\ csv.rows # <<>>
    /\ ret = 0

\* C8 (as claimed), for tables that have rows: with the column absent from
\* the header the extraction fails, and an error is reported instead of a
\* set being returned.
C8_Original ==
    (Returned /\ ~args.process_json /\ args.input_exists /\ csv.rows # <<>>) =>
        (args.column \notin csv.header => main_pc = "return_599" /\ ret = 1)

=============================================================================
